---- MODULE Spec2Model ----
(***************************************************************************)
(* k-way merge of sorted log sources (src/solution/async-sorted-merge.js). *)
(* The file holds two entry points: the asynchronous merge (lines 10-114)  *)
(* and the synchronous merge (lines 121-152).  One run of the model is one *)
(* call of one of them.  JavaScript runs every callback to completion, so  *)
(* each action is one callback (or one invocation of processNextLogEntry,  *)
(* whose tail call runs next with nothing in between: see Running).        *)
(***************************************************************************)
EXTENDS Integers, Sequences, FiniteSets

\* Bounds of the model.
NumSources == 2
MaxLen == 3
MaxDate == 2
MaxBufferSize == 2

Sources == 1..NumSources

\* A log entry is identified by its source and its position in the source;
\* NoEntry is the falsy value popAsync()/pop() resolve to on a drained source
\* (and what Array.prototype.shift() gives on an empty array).
NoEntry == [src |-> 0, n |-> 0, date |-> 0]

\* Sequences of dates of length at most MaxLen, ascending.
RECURSIVE SeqsUpTo(_)
SeqsUpTo(k) ==
  IF k = 0 THEN {<<>>}
  ELSE LET shorter == SeqsUpTo(k - 1)
       IN shorter \cup {Append(q, d) : q \in {r \in shorter : Len(r) = k - 1},
                                       d \in 1..MaxDate}

Ascending(q) == \A a \in 1..Len(q), b \in 1..Len(q) : a < b => q[a] <= q[b]

SortedLogs == {q \in SeqsUpTo(MaxLen) : Ascending(q)}

VARIABLES
  variant,                \* "async" or "sync": which entry point was called
  maxBuffer,              \* MAX_LOG_ENTRY_BUFFER_SIZE of this run
  logs,                   \* logs[s]: the dates source s holds, in order
  failSrc, failCall,      \* the pop call that fails (failSrc = 0: none)
  printFail,              \* the print call that fails (0: none)
  popCount,               \* popCount[s]: pop/popAsync calls made on source s
  fetches,                \* the popAsync promises not yet settled
  heap,                   \* heap[s]: how many times context s is in the heap
  sourceContext,          \* sourceContext[s]: the context object of source s
  numLogEntriesBuffered,  \* the global counter (line 18)
  pc,                     \* where the driver is
  earliest,               \* earliestSourceContext of the suspended driver
  awaited,                \* state of the promise the driver waits on (case 2)
  loopIndex,              \* sync: the source the first loop reads next
  printed,                \* the printer's record: entries printed, in order
  doneCalls,              \* how many times printer.done() was called
  mergePromise,           \* state of the promise the async merge returned
  signalled,              \* sources that resolved a fetch with no entry
  failed,                 \* TRUE once a fetch has failed
  sinkFailed,             \* TRUE once a print call has failed
  chained                 \* the promise of line 113 has adopted a promise of
                          \* line 89 or 102: the driver runs in their callbacks

vars == <<variant, maxBuffer, logs, failSrc, failCall, popCount, fetches, heap,
          sourceContext, numLogEntriesBuffered, pc, earliest, awaited,
          loopIndex, printed, doneCalls, mergePromise, signalled, failed,
          printFail, sinkFailed, chained>>

----------------------------------------------------------------------------
\* The log source (external collaborator): the k-th call of pop/popAsync on
\* source s gives its k-th entry, or no entry once drained; one call may fail.
PopFails(s, k) == failSrc = s /\ failCall = k

PopEntry(s, k) ==
  IF k <= Len(logs[s]) THEN [src |-> s, n |-> k, date |-> logs[s][k]]
  ELSE NoEntry

\* The promise of the k-th popAsync of source s, issued by `kind`.
Fetch(s, kind, k) ==
  [src |-> s, kind |-> kind, call |-> k,
   ok |-> ~PopFails(s, k), entry |-> PopEntry(s, k)]

NoContext ==
  [exists |-> FALSE, entry |-> NoEntry, drained |-> FALSE,
   bufferedEntries |-> <<>>, nextEntryPromise |-> "null"]

\* The context the initial fetch creates (lines 52-57).
NewContext(e) ==
  [exists |-> TRUE, entry |-> e, drained |-> FALSE,
   bufferedEntries |-> <<>>, nextEntryPromise |-> "null"]

----------------------------------------------------------------------------
\* The heap (npm "heap") with the comparator of lines 14-16 / 125-127.
\* Mutant: the comparator with its operands swapped (a max-heap).
ComparatorSwapped(a, b) == b.entry.date - a.entry.date

Comparator(a, b) == a.entry.date - b.entry.date

HeapEmpty == \A s \in Sources : heap[s] = 0

\* heap.pop() gives a context no other context in the heap compares below.
HeapPopChoices ==
  {s \in Sources : heap[s] > 0 /\
     \A t \in Sources : heap[t] > 0 =>
        Comparator(sourceContext[s], sourceContext[t]) <= 0}

HeapPush(h, s) == [h EXCEPT ![s] = @ + 1]

HeapRemove(h, s) == [h EXCEPT ![s] = @ - 1]

----------------------------------------------------------------------------
\* The part of the state bufferLogs reads and writes.
Now ==
  [num |-> numLogEntriesBuffered, ctx |-> sourceContext,
   popCount |-> popCount, fetches |-> fetches]

\* Mutant: bufferLogs without the test of the ceiling (line 23).
BufferLogsReturnsNoCeiling(s, st) ==
  \/ st.ctx[s].drained
  \/ st.ctx[s].nextEntryPromise # "null"

\* Mutant: bufferLogs without the test of drained (line 26).
BufferLogsReturnsNoDrained(s, st) ==
  \/ st.num = maxBuffer
  \/ st.ctx[s].nextEntryPromise # "null"

\* Mutant: bufferLogs without the test of a fetch in flight (line 29).
BufferLogsReturnsNoInFlight(s, st) ==
  \/ st.num = maxBuffer
  \/ st.ctx[s].drained

\* bufferLogs returns early (lines 23-32).
BufferLogsReturns(s, st) ==
  \/ st.num = maxBuffer
  \/ st.ctx[s].drained
  \/ st.ctx[s].nextEntryPromise # "null"

\* Mutant: bufferLogs without the increment of line 33.
bufferLogsNoCount(s, st) ==
  IF BufferLogsReturns(s, st) THEN st
  ELSE [num |-> st.num,
        ctx |-> [st.ctx EXCEPT ![s].nextEntryPromise = "pending"],
        popCount |-> [st.popCount EXCEPT ![s] = @ + 1],
        fetches |-> st.fetches \cup {Fetch(s, "prefetch", st.popCount[s] + 1)}]

\* bufferLogs(sourceContext), lines 22-43, up to the issue of popAsync.
bufferLogs(s, st) ==
  IF BufferLogsReturns(s, st) THEN st
  ELSE [num |-> st.num + 1,
        ctx |-> [st.ctx EXCEPT ![s].nextEntryPromise = "pending"],
        popCount |-> [st.popCount EXCEPT ![s] = @ + 1],
        fetches |-> st.fetches \cup {Fetch(s, "prefetch", st.popCount[s] + 1)}]

\* Array.prototype.shift(): the first element (undefined if there is none).
ShiftResult(q) == IF Len(q) > 0 THEN Head(q) ELSE NoEntry
ShiftRest(q) == IF Len(q) > 0 THEN Tail(q) ELSE q

\* Mutant: getNextEntry without the decrement of line 76.
getNextEntryNoDecrement(s, st) ==
  LET c == st.ctx[s]
      st1 == [st EXCEPT !.ctx[s].entry = ShiftResult(c.bufferedEntries),
                        !.ctx[s].bufferedEntries = ShiftRest(c.bufferedEntries)]
  IN bufferLogs(s, st1)

\* getNextEntry, lines 75-79 (its tail call is the next driver step).
getNextEntry(s, st) ==
  LET c == st.ctx[s]
      st1 == [st EXCEPT !.num = @ - 1,
                        !.ctx[s].entry = ShiftResult(c.bufferedEntries),
                        !.ctx[s].bufferedEntries = ShiftRest(c.bufferedEntries)]
  IN bufferLogs(s, st1)

\* Writes a bufferLogs state back.
Store(st) ==
  /\ numLogEntriesBuffered' = st.num
  /\ sourceContext' = st.ctx
  /\ popCount' = st.popCount
  /\ fetches' = st.fetches

Inputs == <<variant, maxBuffer, logs, failSrc, failCall, printFail>>

\* The driver is inside a synchronous chain of processNextLogEntry calls:
\* no other callback runs until it suspends or returns.
Running == pc = "process"

----------------------------------------------------------------------------
\* State after the synchronous part of the call: the async merge has issued
\* the initial popAsync of every source (lines 47-62) and returned its promise;
\* the sync merge is about to run its first loop.
Init ==
  /\ variant \in {"async", "sync"}
  /\ maxBuffer \in 1..MaxBufferSize
  /\ logs \in [Sources -> SortedLogs]
  /\ failSrc \in 0..NumSources
  /\ failCall \in 1..(MaxLen + 1)
  /\ failSrc = 0 => failCall = 1
  /\ printFail \in 0..MaxLen
  /\ printFail # 0 => failSrc = 0
  /\ popCount = [s \in Sources |-> IF variant = "async" THEN 1 ELSE 0]
  /\ fetches = IF variant = "async"
               THEN {Fetch(s, "initial", 1) : s \in Sources} ELSE {}
  /\ heap = [s \in Sources |-> 0]
  /\ sourceContext = [s \in Sources |-> NoContext]
  /\ numLogEntriesBuffered = 0
  /\ pc = IF variant = "async" THEN "initial" ELSE "sync_read"
  /\ earliest = 0
  /\ awaited = "none"
  /\ loopIndex = 1
  /\ printed = <<>>
  /\ doneCalls = 0
  /\ mergePromise = "pending"
  /\ signalled = {}
  /\ failed = FALSE
  /\ sinkFailed = FALSE
  /\ chained = FALSE

----------------------------------------------------------------------------
\* Asynchronous merge: the callbacks.

\* The runtime has ended the process: no callback runs any more.
Exited == pc = "exited"

\* Callback of a source's initial popAsync (lines 48-61).  A rejected initial
\* fetch rejects Promise.all(promises) and, through it, the returned promise
\* of line 113: the rejection reaches it later, after callbacks that were due.
InitialResolve(f) ==
  /\ f \in fetches /\ f.kind = "initial" /\ ~Running /\ ~Exited
  /\ IF ~f.ok THEN
       /\ fetches' = fetches \ {f}
       /\ failed' = TRUE
       /\ pc' = IF pc = "initial" THEN "propagating" ELSE pc
       /\ UNCHANGED <<popCount, heap, sourceContext, numLogEntriesBuffered,
                      mergePromise, signalled>>
     ELSE IF f.entry = NoEntry THEN
       /\ fetches' = fetches \ {f}
       /\ signalled' = signalled \cup {f.src}
       /\ UNCHANGED <<popCount, heap, sourceContext, numLogEntriesBuffered,
                      pc, mergePromise, failed>>
     ELSE
       /\ Store(bufferLogs(f.src,
                  [Now EXCEPT !.fetches = @ \ {f},
                              !.ctx[f.src] = NewContext(f.entry)]))
       /\ heap' = HeapPush(heap, f.src)
       /\ UNCHANGED <<pc, mergePromise, signalled, failed>>
  /\ UNCHANGED <<Inputs, sinkFailed, chained, earliest, awaited, loopIndex, printed, doneCalls>>

\* Mutant: unshift instead of push.
BufferUnshift(q, e) == <<e>> \o q

\* bufferedEntries.push(entry), line 36.
BufferPush(q, e) == Append(q, e)

\* The driver's case 2 has attached to the prefetch promise of s (line 89)
\* and that promise has not settled yet.
Awaits(s) == pc = "wait2" /\ earliest = s /\ awaited = "pending"

\* A rejected popAsync of bufferLogs: no rejection handler is attached
\* (lines 34-42), so the context keeps the rejected promise.  It is
\* "rejected" when the driver's handler of line 89 is attached to it and
\* "unhandled" as long as nothing is.
PrefetchRejected(s) ==
  [sourceContext EXCEPT
     ![s].nextEntryPromise = IF Awaits(s) THEN "rejected" ELSE "unhandled"]

\* What the driver's case-2 wait sees when prefetch promise of s settles.
Settle(s, how) == IF Awaits(s) THEN how ELSE awaited

\* Callback of a background prefetch (lines 34-42).  A rejected popAsync skips
\* the callback: nextEntryPromise stays set, to a rejected promise, and the
\* rejection of the promise of line 34 has no handler of its own.  The run
\* goes on from there: callbacks that are due still run.
PrefetchResolve(f) ==
  /\ f \in fetches /\ f.kind = "prefetch" /\ ~Running /\ ~Exited
  /\ IF ~f.ok THEN
       /\ fetches' = fetches \ {f}
       /\ sourceContext' = PrefetchRejected(f.src)
       /\ awaited' = Settle(f.src, "rejected")
       /\ failed' = TRUE
       /\ UNCHANGED <<pc, popCount, numLogEntriesBuffered, signalled>>
     ELSE
       /\ Store(bufferLogs(f.src,
            [Now EXCEPT
               !.fetches = @ \ {f},
               !.ctx[f.src].bufferedEntries =
                  IF f.entry # NoEntry THEN BufferPush(@, f.entry) ELSE @,
               !.ctx[f.src].drained = IF f.entry # NoEntry THEN @ ELSE TRUE,
               !.ctx[f.src].nextEntryPromise = "null"]))
       /\ awaited' = Settle(f.src, "fulfilled")
       /\ signalled' = IF f.entry # NoEntry THEN signalled
                       ELSE signalled \cup {f.src}
       /\ UNCHANGED <<pc, failed>>
  /\ UNCHANGED <<Inputs, sinkFailed, chained, heap, earliest, loopIndex, printed, doneCalls,
                 mergePromise>>

\* No callback of the driver is due: the queue of ready callbacks is empty.
Drained ==
  /\ ~Running
  /\ ~(pc = "initial" /\ \A f \in fetches : f.kind # "initial")
  /\ ~(pc = "wait2" /\ awaited # "pending")
  /\ pc # "propagating"
  /\ ~(variant = "async" /\ pc = "done" /\ mergePromise = "pending")

\* The promise of lines 34-42 has rejected, nothing has attached to it and
\* the ready callbacks have run: the runtime may end the process here (it
\* does by default; it goes on where unhandled rejections are only
\* reported).  The promise returned by the merge is left as it is.
UnhandledRejection ==
  /\ \E s \in Sources : sourceContext[s].nextEntryPromise = "unhandled"
  /\ Drained /\ ~Exited
  /\ pc' = "exited"
  /\ UNCHANGED <<Inputs, sinkFailed, chained, popCount, fetches, heap, sourceContext,
                 numLogEntriesBuffered, earliest, awaited, loopIndex, printed,
                 doneCalls, mergePromise, signalled, failed>>

\* Mutant: the driver starts without waiting for the initial fetches.
StartDriverEarly ==
  /\ pc = "initial"
  /\ pc' = "process"
  /\ UNCHANGED <<Inputs, sinkFailed, chained, popCount, fetches, heap, sourceContext,
                 numLogEntriesBuffered, earliest, awaited, loopIndex, printed,
                 doneCalls, mergePromise, signalled, failed>>

\* Promise.all(promises).then(processNextLogEntry), line 113: the driver
\* starts once every initial fetch has resolved.
StartDriver ==
  /\ pc = "initial"
  /\ \A f \in fetches : f.kind # "initial"
  /\ pc' = "process"
  /\ UNCHANGED <<Inputs, sinkFailed, chained, popCount, fetches, heap, sourceContext,
                 numLogEntriesBuffered, earliest, awaited, loopIndex, printed,
                 doneCalls, mergePromise, signalled, failed>>

\* Mutant: done() without the return of line 69, the driver goes on.
ProcessDoneNoReturn ==
  /\ pc = "process" /\ HeapEmpty
  /\ doneCalls' = doneCalls + 1
  /\ mergePromise' = IF chained THEN mergePromise ELSE "fulfilled"
  /\ UNCHANGED <<Inputs, sinkFailed, chained, popCount, fetches, heap, sourceContext,
                 numLogEntriesBuffered, pc, earliest, awaited, loopIndex,
                 printed, signalled, failed>>

\* processNextLogEntry on an empty heap (lines 66-70).  The return of line
\* 69 fulfils the promise of the callback the driver runs in: the promise of
\* line 113 as long as the driver has never waited, otherwise a promise of
\* line 89 or 102 that the promise of line 113 has adopted.
ProcessDone ==
  /\ pc = "process" /\ HeapEmpty
  /\ doneCalls' = doneCalls + 1
  /\ pc' = "done"
  /\ mergePromise' = IF chained THEN mergePromise ELSE "fulfilled"
  /\ UNCHANGED <<Inputs, sinkFailed, chained, popCount, fetches, heap, sourceContext,
                 numLogEntriesBuffered, earliest, awaited, loopIndex, printed,
                 signalled, failed>>

\* The fulfilment of a promise returned at line 89 or 102 reaches the promise
\* of line 113 that adopted it.
PropagateFulfilment ==
  /\ variant = "async" /\ pc = "done" /\ mergePromise = "pending"
  /\ mergePromise' = "fulfilled"
  /\ UNCHANGED <<Inputs, sinkFailed, chained, popCount, fetches, heap,
                 sourceContext, numLogEntriesBuffered, pc, earliest, awaited,
                 loopIndex, printed, doneCalls, signalled, failed>>

\* The output sink (external collaborator): the calls of printer.print made
\* so far, and whether the next one throws.
PrintCalls == Len(printed) + IF sinkFailed THEN 1 ELSE 0

PrintFails == PrintCalls + 1 = printFail

\* Lines 71-72: heap.pop() gave context s and its entry is printed.
PopAndPrint(s) ==
  /\ pc = "process"
  /\ s \in HeapPopChoices
  /\ ~PrintFails
  /\ printed' = Append(printed, sourceContext[s].entry)

\* Mutant: the exception of printer.print is caught and the driver goes on
\* with the next entry.
ProcessPrintFailsContinues ==
  \E s \in Sources :
    /\ pc = "process"
    /\ s \in HeapPopChoices
    /\ PrintFails
    /\ heap' = HeapRemove(heap, s)
    /\ sinkFailed' = TRUE
    /\ UNCHANGED <<Inputs, chained, popCount, fetches, sourceContext,
                   numLogEntriesBuffered, pc, earliest, awaited, loopIndex,
                   printed, doneCalls, mergePromise, signalled, failed>>

\* Lines 71-72 when printer.print throws: nothing in processNextLogEntry
\* catches it, so the promise of the callback the driver runs in is rejected.
\* That is the promise of line 113 as long as the driver has never waited.
\* Once it has, it is a promise returned at line 89 or 102 which the promise
\* of line 113 has adopted: the rejection reaches it later, after callbacks
\* that were due.
ProcessPrintFails ==
  \E s \in Sources :
    /\ pc = "process"
    /\ s \in HeapPopChoices
    /\ PrintFails
    /\ heap' = HeapRemove(heap, s)
    /\ sinkFailed' = TRUE
    /\ pc' = IF chained THEN "propagating" ELSE "rejected"
    /\ mergePromise' = IF chained THEN mergePromise ELSE "rejected"
    /\ UNCHANGED <<Inputs, chained, popCount, fetches, sourceContext,
                   numLogEntriesBuffered, earliest, awaited, loopIndex,
                   printed, doneCalls, signalled, failed>>

\* The rejection of Promise.all(promises), or of a promise returned at line
\* 89 or 102, reaches the promise of line 113 that follows or adopted it.
PropagateRejection ==
  /\ pc = "propagating"
  /\ pc' = "rejected"
  /\ mergePromise' = "rejected"
  /\ UNCHANGED <<Inputs, sinkFailed, chained, popCount, fetches, heap,
                 sourceContext, numLogEntriesBuffered, earliest, awaited,
                 loopIndex, printed, doneCalls, signalled, failed>>

\* Case 1 (lines 84-86): a buffered entry becomes the head.
ProcessCase1 ==
  \E s \in Sources :
    /\ PopAndPrint(s)
    /\ Len(sourceContext[s].bufferedEntries) # 0
    /\ Store(getNextEntry(s, Now))
    /\ heap' = HeapPush(HeapRemove(heap, s), s)
    /\ pc' = "process"
    /\ UNCHANGED <<Inputs, sinkFailed, chained, earliest, awaited, loopIndex, doneCalls,
                   mergePromise, signalled, failed>>

\* nextEntryPromise.then(...) of line 89: the promise of s has a handler now.
Attach(s) ==
  [sourceContext EXCEPT
     ![s].nextEntryPromise = IF @ = "unhandled" THEN "rejected" ELSE @]

\* Case 2 (lines 88-89): wait for the prefetch in flight.
ProcessCase2 ==
  \E s \in Sources :
    /\ PopAndPrint(s)
    /\ Len(sourceContext[s].bufferedEntries) = 0
    /\ sourceContext[s].nextEntryPromise # "null"
    /\ heap' = HeapRemove(heap, s)
    /\ earliest' = s
    /\ sourceContext' = Attach(s)
    /\ awaited' = sourceContext'[s].nextEntryPromise
    /\ pc' = "wait2"
    /\ chained' = TRUE
    /\ UNCHANGED <<Inputs, sinkFailed, popCount, fetches,
                   numLogEntriesBuffered, loopIndex, doneCalls, mergePromise,
                   signalled, failed>>

\* Mutant: case 3 tested first, before the buffer is looked at.
ProcessCase3First ==
  \E s \in Sources :
    /\ PopAndPrint(s)
    /\ sourceContext[s].drained
    /\ heap' = HeapRemove(heap, s)
    /\ pc' = "process"
    /\ UNCHANGED <<Inputs, sinkFailed, chained, popCount, fetches, sourceContext,
                   numLogEntriesBuffered, earliest, awaited, loopIndex,
                   doneCalls, mergePromise, signalled, failed>>

\* Case 3 (lines 98-100): the source is drained, its context is dropped.
ProcessCase3 ==
  \E s \in Sources :
    /\ PopAndPrint(s)
    /\ Len(sourceContext[s].bufferedEntries) = 0
    /\ sourceContext[s].nextEntryPromise = "null"
    /\ sourceContext[s].drained
    /\ heap' = HeapRemove(heap, s)
    /\ pc' = "process"
    /\ UNCHANGED <<Inputs, sinkFailed, chained, popCount, fetches, sourceContext,
                   numLogEntriesBuffered, earliest, awaited, loopIndex,
                   doneCalls, mergePromise, signalled, failed>>

\* Case 4 (line 102): the driver fetches the next entry itself.
ProcessCase4 ==
  \E s \in Sources :
    /\ PopAndPrint(s)
    /\ Len(sourceContext[s].bufferedEntries) = 0
    /\ sourceContext[s].nextEntryPromise = "null"
    /\ ~sourceContext[s].drained
    /\ heap' = HeapRemove(heap, s)
    /\ popCount' = [popCount EXCEPT ![s] = @ + 1]
    /\ fetches' = fetches \cup {Fetch(s, "direct", popCount[s] + 1)}
    /\ earliest' = s
    /\ pc' = "wait4"
    /\ chained' = TRUE
    /\ UNCHANGED <<Inputs, sinkFailed, sourceContext, numLogEntriesBuffered, awaited,
                   loopIndex, doneCalls, mergePromise, signalled, failed>>

\* Mutant: the test of line 91 lost, the callback always promotes.
Case2DiscardsNever(c) == FALSE

\* Mutant: || for && in the test of line 91.
Case2DiscardsEither(c) == Len(c.bufferedEntries) = 0 \/ c.drained

\* The test of line 91: the awaited prefetch found the source drained.
Case2Discards(c) == Len(c.bufferedEntries) = 0 /\ c.drained

\* Case 2, the callback of lines 89-95; it does not run if the awaited
\* promise was rejected: the rejection passes down to the returned promise.
Case2Resume ==
  /\ pc = "wait2"
  /\ awaited \in {"fulfilled", "rejected"}
  /\ LET s == earliest
         c == sourceContext[s]
     IN IF awaited = "rejected" THEN
          /\ pc' = "rejected"
          /\ mergePromise' = "rejected"
          /\ UNCHANGED <<popCount, fetches, heap, sourceContext,
                         numLogEntriesBuffered>>
        ELSE IF Case2Discards(c) THEN
          /\ pc' = "process"
          /\ UNCHANGED <<popCount, fetches, heap, sourceContext,
                         numLogEntriesBuffered, mergePromise>>
        ELSE
          /\ Store(getNextEntry(s, Now))
          /\ heap' = HeapPush(heap, s)
          /\ pc' = "process"
          /\ UNCHANGED mergePromise
  /\ awaited' = "none"
  /\ earliest' = 0
  /\ UNCHANGED <<Inputs, sinkFailed, chained, loopIndex, printed, doneCalls, signalled, failed>>

\* Mutant: on a drained source the callback returns without calling
\* processNextLogEntry (line 105 lost).
DirectResolveStalls(f) ==
  /\ f \in fetches /\ f.kind = "direct" /\ pc = "wait4"
  /\ IF ~f.ok THEN
       /\ fetches' = fetches \ {f}
       /\ failed' = TRUE
       /\ pc' = "propagating"
       /\ UNCHANGED <<popCount, heap, sourceContext, numLogEntriesBuffered,
                      mergePromise, signalled>>
     ELSE IF f.entry = NoEntry THEN
       /\ fetches' = fetches \ {f}
       /\ signalled' = signalled \cup {f.src}
       /\ pc' = "returned"
       /\ mergePromise' = "fulfilled"
       /\ UNCHANGED <<popCount, heap, sourceContext, numLogEntriesBuffered,
                      failed>>
     ELSE
       /\ Store(bufferLogs(f.src,
                  [Now EXCEPT !.fetches = @ \ {f},
                              !.ctx[f.src].entry = f.entry]))
       /\ heap' = HeapPush(heap, f.src)
       /\ pc' = "process"
       /\ UNCHANGED <<mergePromise, signalled, failed>>
  /\ earliest' = 0
  /\ UNCHANGED <<Inputs, sinkFailed, chained, awaited, loopIndex, printed, doneCalls>>

\* Case 4, the callback of lines 102-111 (or its rejection).
DirectResolve(f) ==
  /\ f \in fetches /\ f.kind = "direct" /\ pc = "wait4"
  /\ IF ~f.ok THEN
       /\ fetches' = fetches \ {f}
       /\ failed' = TRUE
       /\ pc' = "propagating"
       /\ UNCHANGED <<popCount, heap, sourceContext, numLogEntriesBuffered,
                      mergePromise, signalled>>
     ELSE IF f.entry = NoEntry THEN
       /\ fetches' = fetches \ {f}
       /\ signalled' = signalled \cup {f.src}
       /\ pc' = "process"
       /\ UNCHANGED <<popCount, heap, sourceContext, numLogEntriesBuffered,
                      mergePromise, failed>>
     ELSE
       /\ Store(bufferLogs(f.src,
                  [Now EXCEPT !.fetches = @ \ {f},
                              !.ctx[f.src].entry = f.entry]))
       /\ heap' = HeapPush(heap, f.src)
       /\ pc' = "process"
       /\ UNCHANGED <<mergePromise, signalled, failed>>
  /\ earliest' = 0
  /\ UNCHANGED <<Inputs, sinkFailed, chained, awaited, loopIndex, printed, doneCalls>>

----------------------------------------------------------------------------
\* Synchronous merge (lines 121-152); a pop() that fails throws out of it.

\* Mutant: the entry read is never pushed on the heap.
SyncPopDropsEntry(s, h, nextPc) ==
  LET k == popCount[s] + 1
  IN /\ popCount' = [popCount EXCEPT ![s] = k]
     /\ IF PopFails(s, k) THEN
          /\ failed' = TRUE
          /\ pc' = "thrown"
          /\ heap' = h
          /\ UNCHANGED <<sourceContext, signalled>>
        ELSE
          /\ signalled' = IF PopEntry(s, k) = NoEntry
                          THEN signalled \cup {s} ELSE signalled
          /\ pc' = nextPc
          /\ heap' = h
          /\ UNCHANGED <<sourceContext, failed>>

\* What one source.pop() of the sync merge does to the source and the heap:
\* lines 130-136 and 142-148.
SyncPop(s, h, nextPc) ==
  LET k == popCount[s] + 1
  IN /\ popCount' = [popCount EXCEPT ![s] = k]
     /\ IF PopFails(s, k) THEN
          /\ failed' = TRUE
          /\ pc' = "thrown"
          /\ heap' = h
          /\ UNCHANGED <<sourceContext, signalled>>
        ELSE IF PopEntry(s, k) = NoEntry THEN
          /\ signalled' = signalled \cup {s}
          /\ pc' = nextPc
          /\ heap' = h
          /\ UNCHANGED <<sourceContext, failed>>
        ELSE
          /\ sourceContext' =
               [sourceContext EXCEPT ![s] = NewContext(PopEntry(s, k))]
          /\ heap' = HeapPush(h, s)
          /\ pc' = nextPc
          /\ UNCHANGED <<signalled, failed>>

\* One iteration of the first loop (lines 129-137).
SyncRead ==
  /\ pc = "sync_read"
  /\ SyncPop(loopIndex, heap,
             IF loopIndex = NumSources THEN "sync_loop" ELSE "sync_read")
  /\ loopIndex' = loopIndex + 1
  /\ UNCHANGED <<Inputs, sinkFailed, chained, fetches, numLogEntriesBuffered, earliest, awaited,
                 printed, doneCalls, mergePromise>>

\* One iteration of the while loop (lines 139-149).
SyncPrint ==
  /\ pc = "sync_loop"
  /\ ~PrintFails
  /\ \E s \in HeapPopChoices :
       /\ printed' = Append(printed, sourceContext[s].entry)
       /\ SyncPop(s, HeapRemove(heap, s), "sync_loop")
  /\ UNCHANGED <<Inputs, sinkFailed, chained, fetches, numLogEntriesBuffered, earliest, awaited,
                 loopIndex, doneCalls, mergePromise>>

\* Lines 140-141 when printer.print throws: the exception leaves the merge.
SyncPrintFails ==
  /\ pc = "sync_loop"
  /\ PrintFails
  /\ \E s \in HeapPopChoices : heap' = HeapRemove(heap, s)
  /\ sinkFailed' = TRUE
  /\ pc' = "thrown"
  /\ UNCHANGED <<Inputs, chained, popCount, fetches, sourceContext,
                 numLogEntriesBuffered, earliest, awaited, loopIndex, printed,
                 doneCalls, mergePromise, signalled, failed>>

\* The loop ends on an empty heap: printer.done() (line 150).
SyncDone ==
  /\ pc = "sync_loop" /\ HeapEmpty
  /\ doneCalls' = doneCalls + 1
  /\ pc' = "done"
  /\ UNCHANGED <<Inputs, sinkFailed, chained, popCount, fetches, heap, sourceContext,
                 numLogEntriesBuffered, earliest, awaited, loopIndex, printed,
                 mergePromise, signalled, failed>>

\* The synchronous merge as a function of the sources: the dates it prints
\* (lines 129-149), from the position each source is read at.
RECURSIVE SyncRun(_, _)
SyncRun(pos, out) ==
  LET inHeap == {s \in Sources : pos[s] <= Len(logs[s])}
  IN IF inHeap = {} THEN out
     ELSE LET s == CHOOSE x \in inHeap : \A y \in inHeap :
                      logs[x][pos[x]] - logs[y][pos[y]] <= 0
          IN SyncRun([pos EXCEPT ![s] = @ + 1], Append(out, logs[s][pos[s]]))

SyncOutput == SyncRun([s \in Sources |-> 1], <<>>)

----------------------------------------------------------------------------
Next ==
  \/ \E f \in fetches : InitialResolve(f)
  \/ \E f \in fetches : PrefetchResolve(f)
  \/ UnhandledRejection
  \/ StartDriver
  \/ ProcessDone
  \/ PropagateFulfilment
  \/ ProcessCase1
  \/ ProcessCase2
  \/ ProcessCase3
  \/ ProcessCase4
  \/ ProcessPrintFails
  \/ PropagateRejection
  \/ Case2Resume
  \/ \E f \in fetches : DirectResolve(f)
  \/ SyncRead
  \/ SyncPrint
  \/ SyncPrintFails
  \/ SyncDone

Spec == Init /\ [][Next]_vars

\* Every callback that is ready runs and every fetch issued settles.
FairSpec == Spec /\ WF_vars(Next)

----------------------------------------------------------------------------
\* Properties.

Async == variant = "async"

\* Number of entries in all read-ahead buffers.
BufferedUpTo[k \in 0..NumSources] ==
  IF k = 0 THEN 0
  ELSE BufferedUpTo[k - 1] + Len(sourceContext[k].bufferedEntries)

TotalBuffered == BufferedUpTo[NumSources]

\* Number of entries of all sources.
EntriesUpTo[k \in 0..NumSources] ==
  IF k = 0 THEN 0 ELSE EntriesUpTo[k - 1] + Len(logs[k])

TotalEntries == EntriesUpTo[NumSources]

\* Positions of `printed` that hold the k-th entry of source s.
PrintedAt(s, k) ==
  {i \in 1..Len(printed) : printed[i].src = s /\ printed[i].n = k}

\* C1: in an asynchronous run, an entry printed before another has a
\* timestamp that is not later.
C1_Ordering ==
  Async => \A i \in 1..Len(printed), j \in 1..Len(printed) :
             i < j => printed[i].date <= printed[j].date

\* C1 witness: a finished asynchronous run printed entries of both sources
\* interleaved, with distinct dates, at the smallest ceiling.
C1_Witness ==
  /\ Async /\ pc = "done" /\ maxBuffer = 1
  /\ Len(printed) >= 3
  /\ printed[1].src # printed[2].src /\ printed[2].src # printed[3].src
  /\ printed[1].date < printed[Len(printed)].date

\* C2: when done() is invoked in an asynchronous run, every entry of every
\* source was printed exactly once and nothing else was printed.
C2_Completeness ==
  (Async /\ doneCalls >= 1) =>
     /\ Len(printed) = TotalEntries
     /\ \A s \in Sources : \A k \in 1..Len(logs[s]) :
          /\ Cardinality(PrintedAt(s, k)) = 1
          /\ \A i \in PrintedAt(s, k) : printed[i] = PopEntry(s, k)

\* C2 witness: done() after both sources gave several entries, one of them
\* drained by a prefetch and one by the driver's direct fetch.
C2_Witness ==
  /\ Async /\ doneCalls = 1
  /\ \A s \in Sources : Len(logs[s]) >= 2
  /\ \E s \in Sources : sourceContext[s].drained
  /\ \E s \in Sources : ~sourceContext[s].drained

\* C3: the entries of one source are printed in the order the source gave
\* them.
C3_PerSourceOrder ==
  Async => \A i \in 1..Len(printed), j \in 1..Len(printed) :
             (i < j /\ printed[i].src = printed[j].src)
                => printed[i].n < printed[j].n

\* C3 witness: one source had its first entry from the initial fetch, two
\* entries waiting in its buffer at once, and all three are printed.
C3_Witness ==
  /\ Async
  /\ \E s \in Sources :
       /\ Len(logs[s]) = 3
       /\ Cardinality({i \in 1..Len(printed) : printed[i].src = s}) = 3
       /\ sourceContext[s].drained
  /\ \E s \in Sources : ~sourceContext[s].drained /\ popCount[s] = 3

\* C4: the read-ahead buffers never hold more than MAX_BUFFER entries in all.
C4_BufferBound == Async => TotalBuffered <= maxBuffer

\* C4 witness: the buffers are full (two entries at a ceiling of two) and a
\* source that is not drained has no prefetch in flight: bufferLogs refused.
C4_Witness ==
  /\ Async /\ maxBuffer = 2 /\ TotalBuffered = 2
  /\ \E s \in Sources :
       /\ sourceContext[s].exists /\ ~sourceContext[s].drained
       /\ sourceContext[s].nextEntryPromise = "null"
       /\ Len(sourceContext[s].bufferedEntries) = 1

\* C5: in an asynchronous run done() is invoked at most once and nothing is
\* printed once it was invoked.
C5_DoneOnceAndLast ==
  /\ [](Async => doneCalls <= 1)
  /\ [][(Async /\ doneCalls >= 1) =>
          (printed' = printed /\ doneCalls' = doneCalls)]_vars

\* C5 witness: done() was invoked after entries were printed.
C5_Witness == Async /\ doneCalls = 1 /\ Len(printed) >= 2

\* C6: done() is invoked only when every source has resolved a fetch with no
\* entry, the heap and every buffer are empty, no fetch is in flight and every
\* context's head was printed.
C6_DoneOnlyWhenDrained ==
  (Async /\ doneCalls >= 1) =>
     /\ signalled = Sources
     /\ HeapEmpty
     /\ fetches = {}
     /\ \A s \in Sources :
          /\ Len(sourceContext[s].bufferedEntries) = 0
          /\ sourceContext[s].exists =>
               \E i \in 1..Len(printed) : printed[i] = sourceContext[s].entry

\* C6 witness: done() in a run with a single source that holds entries: each
\* time the driver extracted its context to refill it, the heap was empty.
C6_Witness ==
  /\ Async /\ doneCalls = 1 /\ signalled = Sources
  /\ Len(logs[1]) = 0 /\ Len(logs[2]) >= 2

\* C7: if no fetch and no print fails and every fetch issued resolves, the asynchronous
\* merge invokes done() and its promise is fulfilled; whenever the driver is
\* suspended, the fetch it waits for is in flight or its callback is due.
C7_Termination ==
  /\ [](pc = "wait2" /\ awaited = "pending" =>
          \E f \in fetches : f.src = earliest /\ f.kind = "prefetch")
  /\ [](pc = "wait2" => awaited # "none")
  /\ [](pc = "wait4" =>
          \E f \in fetches : f.src = earliest /\ f.kind = "direct")
  /\ ((Async /\ failSrc = 0 /\ printFail = 0) =>
         <>(doneCalls = 1 /\ mergePromise = "fulfilled"))

\* C7 witness: a run without failure ended with done() and a fulfilled
\* promise after the driver drained one source by a direct fetch and the
\* other by a prefetch.
C7_Witness ==
  /\ Async /\ failSrc = 0 /\ printFail = 0
  /\ doneCalls = 1 /\ mergePromise = "fulfilled"
  /\ \E s \in Sources : Len(logs[s]) >= 1 /\ ~sourceContext[s].drained
  /\ \E s \in Sources : Len(logs[s]) >= 1 /\ sourceContext[s].drained

\* C8: once a source has resolved a fetch with no entry, no pop or popAsync
\* is called on it again, in the asynchronous and in the synchronous merge.
C8_NoFetchAfterExhaustion ==
  [][\A s \in signalled : popCount'[s] = popCount[s]]_vars

\* C8 witness: a source was found drained by a prefetch, its context was
\* dropped after its last entry was printed, and the driver is still at work
\* on the other source.
C8_Witness ==
  /\ Async
  /\ \E s \in signalled :
       /\ sourceContext[s].drained /\ heap[s] = 0
       /\ Cardinality(PrintedAt(s, Len(logs[s]))) = 1
  /\ pc \in {"wait2", "wait4"}

\* C9: if a fetch of the asynchronous merge fails, done() is never invoked
\* and the returned promise ends rejected: once the run can take no further
\* step, the promise is rejected.
C9_FetchFailureRejects ==
  (Async /\ failed) =>
     /\ doneCalls = 0
     /\ (~ENABLED Next) => mergePromise = "rejected"

\* C10: once a fetch of the asynchronous merge has failed, no entry is
\* printed.
C10_NoPrintAfterFailure ==
  [][(Async /\ failed) => printed' = printed]_vars

\* C11: if a print call of the asynchronous merge fails, no further print
\* call is made, done() is never called, the returned promise is never
\* fulfilled, and it ends rejected and stays so.
C11_SinkFailureAborts ==
  /\ []((Async /\ sinkFailed) => (doneCalls = 0 /\ mergePromise # "fulfilled"))
  /\ [][(Async /\ sinkFailed) =>
          (PrintCalls' = PrintCalls /\ doneCalls' = doneCalls)]_vars
  /\ ((Async /\ sinkFailed) ~> [](mergePromise = "rejected"))

\* C11 witness: the second print call failed in the callback of a wait, with
\* a context left in the heap that holds two buffered entries; the rejection
\* has reached the returned promise.
C11_Witness ==
  /\ Async /\ sinkFailed /\ chained /\ Len(printed) = 1
  /\ mergePromise = "rejected"
  /\ ~HeapEmpty
  /\ \E s \in Sources : heap[s] = 1 /\ Len(sourceContext[s].bufferedEntries) = 2

\* The dates of the entries printed, in order.
PrintedDates == [i \in 1..Len(printed) |-> printed[i].date]

\* C12: a finished merge, asynchronous (whatever the ceiling and the order of
\* resolutions) or synchronous, has printed the sequence of timestamps the
\* synchronous merge prints for these sources.
C12_AsyncAgreesWithSync ==
  doneCalls >= 1 => PrintedDates = SyncOutput

\* C12 witness: an asynchronous run at a ceiling of 1 finished on two sources
\* of at least two entries each, with dates that interleave.
C12_Witness ==
  /\ Async /\ doneCalls = 1 /\ maxBuffer = 1
  /\ \A s \in Sources : Len(logs[s]) >= 2 /\ logs[s][1] < logs[s][Len(logs[s])]

Sync == variant = "sync"

\* C13: the synchronous merge prints in non-decreasing timestamp order; if
\* nothing fails it reaches done(), called once, when every entry of every
\* source was printed exactly once, and prints nothing after it.
C13_SyncBaseline ==
  /\ [](Sync => \A i \in 1..Len(printed), j \in 1..Len(printed) :
                  i < j => printed[i].date <= printed[j].date)
  /\ [](Sync => doneCalls <= 1)
  /\ []((Sync /\ doneCalls >= 1) =>
          /\ Len(printed) = TotalEntries
          /\ \A s \in Sources : \A k \in 1..Len(logs[s]) :
               /\ Cardinality(PrintedAt(s, k)) = 1
               /\ \A i \in PrintedAt(s, k) : printed[i] = PopEntry(s, k))
  /\ [][(Sync /\ doneCalls >= 1) =>
          (printed' = printed /\ doneCalls' = doneCalls)]_vars
  /\ ((Sync /\ failSrc = 0 /\ printFail = 0) => <>(doneCalls = 1))

\* C13 witness: the synchronous merge called done() on an empty source and a
\* source of at least two entries with different dates.
C13_Witness ==
  /\ Sync /\ doneCalls = 1 /\ pc = "done"
  /\ Len(logs[1]) = 0 /\ Len(logs[2]) >= 2
  /\ logs[2][1] < logs[2][Len(logs[2])]

FetchesOf(s) == {f \in fetches : f.src = s}

\* C14: no source ever has two fetches outstanding, whatever their kinds
\* (initial, background prefetch, direct).
C14_OneFetchPerSource ==
  \A s \in Sources : Cardinality(FetchesOf(s)) <= 1

\* C14 witness: the driver waits on its direct fetch of one source while a
\* background prefetch of the other is in flight and entries were printed.
C14_Witness ==
  /\ Async /\ pc = "wait4" /\ Len(printed) >= 2
  /\ \E f \in fetches : f.kind = "direct"
  /\ \E f \in fetches : f.kind = "prefetch"

\* Sources with a background prefetch in flight, and sources whose background
\* prefetch ended without an entry (source drained, or popAsync rejected).
PrefetchInFlight ==
  {s \in Sources : sourceContext[s].nextEntryPromise = "pending"}

PrefetchEndedEmpty ==
  {s \in Sources : sourceContext[s].drained
                   \/ sourceContext[s].nextEntryPromise
                        \in {"rejected", "unhandled"}}

\* C15 as claimed: the counter equals the number of entries in the buffers.
C15_CounterEqualsBuffered ==
  Async => numLogEntriesBuffered = TotalBuffered

\* C15 as amended: the counter equals the number of entries in the buffers
\* plus the background prefetches in flight plus the background prefetches
\* that ended without an entry.
C15_CounterAccounting ==
  Async => numLogEntriesBuffered =
             TotalBuffered + Cardinality(PrefetchInFlight)
                           + Cardinality(PrefetchEndedEmpty)

\* C15 witness: every buffer is empty and no prefetch is in flight, yet the
\* counter stands at a ceiling of 2: both sources were found drained by their
\* prefetch.
C15_Witness ==
  /\ Async /\ maxBuffer = 2 /\ numLogEntriesBuffered = 2
  /\ TotalBuffered = 0 /\ PrefetchInFlight = {}
  /\ \A s \in Sources : sourceContext[s].drained /\ Len(logs[s]) >= 1

\* C16: when every other source is exhausted with an empty buffer, a source
\* that is not exhausted, has no fetch in flight (and, here, buffers nothing
\* itself) finds the counter below the ceiling, so bufferLogs prefetches.
C16_NoStarvation ==
  Async =>
    \A s \in Sources :
      ( /\ sourceContext[s].exists
        /\ ~sourceContext[s].drained
        /\ s \notin signalled
        /\ FetchesOf(s) = {}
        /\ sourceContext[s].nextEntryPromise = "null"
        /\ Len(sourceContext[s].bufferedEntries) = 0
        /\ \A u \in Sources \ {s} :
             /\ u \in signalled
             /\ Len(sourceContext[u].bufferedEntries) = 0 )
      => numLogEntriesBuffered < maxBuffer

\* Prefetches issued and buffered entries promoted to head by a step.
PrefetchesIssued ==
  Cardinality({f \in fetches' \ fetches : f.kind = "prefetch"})

Promotions ==
  Cardinality({s \in Sources :
     Len(sourceContext'[s].bufferedEntries)
        < Len(sourceContext[s].bufferedEntries)})

\* C17: a step changes the counter by +1 for the prefetch bufferLogs issues
\* in it and by -1 for the buffered entry it promotes to head, and by nothing
\* else.
C17_CounterFrame ==
  [][numLogEntriesBuffered' - numLogEntriesBuffered
        = PrefetchesIssued - Promotions]_vars

\* C17 witness: at a ceiling of 2 the third entry of a source was promoted
\* from its buffer; the buffers are empty and the counter is 1, for the
\* prefetch in flight.
C17_Witness ==
  /\ Async /\ maxBuffer = 2 /\ numLogEntriesBuffered = 1 /\ TotalBuffered = 0
  /\ \E s \in Sources :
       /\ heap[s] = 1 /\ sourceContext[s].entry.n = 3
       /\ sourceContext[s].nextEntryPromise = "pending"
  /\ Len(printed) >= 2

\* C18: a context is in the heap at most once, and a context in the heap has
\* a head entry that was not printed; when the case-2 callback promotes, the
\* buffer holds an entry.
C18_HeapContexts ==
  /\ \A s \in Sources :
       /\ heap[s] <= 1
       /\ heap[s] > 0 =>
            /\ sourceContext[s].exists
            /\ sourceContext[s].entry # NoEntry
            /\ \A i \in 1..Len(printed) : printed[i] # sourceContext[s].entry
  /\ (pc = "wait2" /\ awaited = "fulfilled"
        /\ ~Case2Discards(sourceContext[earliest]))
       => Len(sourceContext[earliest].bufferedEntries) > 0

\* C18 witness: the case-2 callback is due, the awaited prefetch brought an
\* entry, and the other context is in the heap.
C18_Witness ==
  /\ Async /\ pc = "wait2" /\ awaited = "fulfilled"
  /\ Len(sourceContext[earliest].bufferedEntries) > 0
  /\ \E s \in Sources : heap[s] = 1

\* C19: the counter stays between 0 and the ceiling.
C19_CounterRange ==
  Async => (0 <= numLogEntriesBuffered /\ numLogEntriesBuffered <= maxBuffer)

\* C19 witness: the counter at the ceiling when bufferLogs is refused (a
\* context with nothing buffered and no prefetch in flight), after it went
\* down by a promotion.
C19_Witness ==
  /\ Async /\ numLogEntriesBuffered = maxBuffer /\ Len(printed) >= 2
  /\ \E s \in Sources :
       /\ heap[s] = 1 /\ ~sourceContext[s].drained
       /\ sourceContext[s].nextEntryPromise = "null"
       /\ Len(sourceContext[s].bufferedEntries) = 0
       /\ sourceContext[s].entry.n >= 2

\* C20: the asynchronous driver makes no print call while an initial fetch
\* is unresolved.
C20_NoPrintBeforeInitialFetches ==
  (Async /\ \E f \in fetches : f.kind = "initial") => PrintCalls = 0

\* C20 witness: one source's initial fetch is unresolved while the other's
\* background prefetch has already put an entry in its buffer; nothing is
\* printed.
C20_Witness ==
  /\ Async /\ PrintCalls = 0 /\ pc = "initial"
  /\ \E f \in fetches : f.kind = "initial"
  /\ TotalBuffered >= 1

====
